---- MODULE Spec2Model ----
(***************************************************************************)
(* The concurrent frontier crawler of scrapper/crawler.py: URL             *)
(* normalisation, the same-site scope policy, seed merging and the worker  *)
(* pool of crawl_bfs, as a state machine.                                  *)
(*                                                                         *)
(* A URL is a Python str, modelled as a sequence of one-character strings. *)
(* The workers are asyncio tasks on one event loop: a worker's code runs   *)
(* atomically from one suspension point (await) to the next, so there is   *)
(* one action per stretch of code between two suspension points.           *)
(***************************************************************************)
EXTENDS Integers, Sequences, FiniteSets, Bags, TLC

(***************************************************************************)
(* Bounds of the model.                                                    *)
(***************************************************************************)
\* max_pages is drawn from 1..MaxPagesBound
MaxPagesBound == 3
\* concurrency is drawn from 1..MaxConcurrency
MaxConcurrency == 2
\* the number of sitemap/feed URLs that no page links to
NumSeedOnly == 2

(***************************************************************************)
(* Strings.                                                                *)
(***************************************************************************)
\* Code points of the characters the modelled URLs are made of (ord()).
Ord ==
  [c \in {"#", ".", "/", "0", "1", "2", "3", "4", "5", "6", "7", "8", "9",
          ":", "?", "A", "C", "H", "M", "O", "P", "S", "T", "[", "]",
          "a", "b", "c", "e", "h", "i", "l", "m", "o", "p", "r", "s", "t",
          "v", "w", "x", "y"} |->
     CASE c = "#" -> 35 [] c = "." -> 46 [] c = "/" -> 47
       [] c = "0" -> 48 [] c = "1" -> 49 [] c = "2" -> 50 [] c = "3" -> 51
       [] c = "4" -> 52 [] c = "5" -> 53 [] c = "6" -> 54 [] c = "7" -> 55
       [] c = "8" -> 56 [] c = "9" -> 57
       [] c = ":" -> 58 [] c = "?" -> 63
       [] c = "A" -> 65 [] c = "C" -> 67 [] c = "H" -> 72 [] c = "M" -> 77
       [] c = "O" -> 79 [] c = "P" -> 80 [] c = "S" -> 83 [] c = "T" -> 84
       [] c = "[" -> 91 [] c = "]" -> 93
       [] c = "a" -> 97 [] c = "b" -> 98 [] c = "c" -> 99 [] c = "e" -> 101
       [] c = "h" -> 104 [] c = "i" -> 105 [] c = "l" -> 108
       [] c = "m" -> 109 [] c = "o" -> 111 [] c = "p" -> 112
       [] c = "r" -> 114 [] c = "s" -> 115 [] c = "t" -> 116
       [] c = "v" -> 118 [] c = "w" -> 119 [] c = "x" -> 120
       [] c = "y" -> 121]

\* str.lower() on one character
LowerChar(c) ==
  CASE c = "A" -> "a" [] c = "C" -> "c" [] c = "H" -> "h" [] c = "M" -> "m"
    [] c = "O" -> "o" [] c = "P" -> "p" [] c = "S" -> "s" [] c = "T" -> "t"
    [] OTHER -> c

\* str.lower()
Lower(s) == [i \in 1..Len(s) |-> LowerChar(s[i])]

\* s[i:] with a 0-based Python index i
From(s, i) == SubSeq(s, i + 1, Len(s))

\* s[:i] with a 0-based Python index i
Upto(s, i) == SubSeq(s, 1, i)

\* str.startswith
StartsWith(s, p) == Len(p) <= Len(s) /\ SubSeq(s, 1, Len(p)) = p

\* str.endswith
EndsWith(s, p) ==
  Len(p) <= Len(s) /\ SubSeq(s, Len(s) - Len(p) + 1, Len(s)) = p

\* str.find(c): the 0-based index of the first character of s in cs, -1 if none
Find(s, cs) ==
  IF \E i \in 1..Len(s) : s[i] \in cs
    THEN (CHOOSE i \in 1..Len(s) :
            s[i] \in cs /\ \A j \in 1..(i - 1) : s[j] \notin cs) - 1
    ELSE -1

\* p in s (substring)
Contains(s, p) ==
  \E i \in 0..(Len(s) - Len(p)) : SubSeq(s, i + 1, i + Len(p)) = p

\* s < t for two Python strings: code-point lexicographic order
StrLess(s, t) ==
  \E i \in 1..(IF Len(s) < Len(t) THEN Len(s) + 1 ELSE Len(t)) :
     /\ \A j \in 1..(i - 1) : s[j] = t[j]
     /\ IF i > Len(s) THEN TRUE ELSE Ord[s[i]] < Ord[t[i]]

\* The element of a one-element set.  Only({F(x) : x \in {e}}) is F(e) with
\* e evaluated once.
Only(S) == CHOOSE x \in S : TRUE

\* sorted(S, reverse=True)
RECURSIVE SortedDescending(_)
SortedDescending(S) ==
  IF S = {} THEN <<>>
  ELSE Only({<<m>> \o SortedDescending(S \ {m}) :
               m \in {x \in S : \A y \in S \ {x} : StrLess(y, x)}})

\* sorted(S): the elements of a set of strings in ascending order
RECURSIVE Sorted(_)
Sorted(S) ==
  IF S = {} THEN <<>>
  ELSE Only({<<m>> \o Sorted(S \ {m}) :
               m \in {x \in S : \A y \in S \ {x} : StrLess(x, y)}})

(***************************************************************************)
(* urllib.parse, as far as crawler.py uses it.  The modelled strings hold  *)
(* no ';', no blanks and no control characters, so the params component   *)
(* is always empty; none holds both '[' and ']'.  urlparse raises          *)
(* ValueError("Invalid IPv6 URL") for a netloc with one bracket and not    *)
(* the other.                                                              *)
(***************************************************************************)
Letters ==
  {"A", "C", "H", "M", "O", "P", "S", "T",
   "a", "b", "c", "e", "h", "i", "l", "m", "o", "p", "r", "s", "t",
   "v", "w", "x", "y"}

Digits == {"0", "1", "2", "3", "4", "5", "6", "7", "8", "9"}

\* urllib.parse.scheme_chars
SchemeChars == Letters \cup Digits \cup {"."}

\* urllib.parse.uses_netloc, restricted to the schemes of the model
UsesNetloc == {<<"h", "t", "t", "p">>, <<"h", "t", "t", "p", "s">>}

\* urlsplit, the scheme: url[:i].lower() and url[i+1:] when the text before
\* the first ':' is a scheme, else no scheme and the whole url
SplitScheme(url) ==
  Only({IF /\ i > 0
           /\ url[1] \in Letters
           /\ \A k \in 1..i : url[k] \in SchemeChars
          THEN [scheme |-> Lower(Upto(url, i)), rest |-> From(url, i + 1)]
          ELSE [scheme |-> <<>>, rest |-> url] :
        i \in {Find(url, {":"})}})

\* urlsplit, the netloc: _splitnetloc(url, 2) when url[:2] == '//'
SplitNetloc(url) ==
  IF StartsWith(url, <<"/", "/">>)
    THEN Only({IF d < 0
                 THEN [netloc |-> From(url, 2), rest |-> <<>>]
                 ELSE [netloc |-> SubSeq(url, 3, d + 2), rest |-> From(url, d + 2)] :
               d \in {Find(From(url, 2), {"/", "?", "#"})}})
    ELSE [netloc |-> <<>>, rest |-> url]

\* url.split(c, 1) when c is in url: [head, tail]; else the url and ''
SplitAt(url, c) ==
  Only({IF k < 0
          THEN [head |-> url, tail |-> <<>>]
          ELSE [head |-> Upto(url, k), tail |-> From(url, k + 1)] :
        k \in {Find(url, {c})}})

\* urllib.parse.urlparse(url) raises ValueError: the netloc has '[' and
\* no ']', or ']' and no '['
UrlParseRaises(url) ==
  \E netloc \in {SplitNetloc(SplitScheme(url).rest).netloc} :
     (\E i \in 1..Len(netloc) : netloc[i] = "[")
       # (\E i \in 1..Len(netloc) : netloc[i] = "]")

\* urllib.parse.urlparse(url): [scheme, netloc, path, query, fragment]
UrlParse(url) ==
  Only({Only({Only({Only({
    [scheme |-> s.scheme, netloc |-> n.netloc, path |-> q.head,
     query |-> q.tail, fragment |-> f.tail] :
      q \in {SplitAt(f.head, "?")}}) :
      f \in {SplitAt(n.rest, "#")}}) :
      n \in {SplitNetloc(s.rest)}}) :
      s \in {SplitScheme(url)}})

\* urllib.parse.urlunparse((scheme, netloc, path, "", query, fragment))
UrlUnparse(scheme, netloc, path, query, fragment) ==
  LET u1 == IF \/ netloc # <<>>
               \/ /\ scheme # <<>>
                  /\ scheme \in UsesNetloc
                  /\ ~StartsWith(path, <<"/", "/">>)
            THEN <<"/", "/">> \o netloc \o
                 (IF path # <<>> /\ path[1] # "/" THEN <<"/">> ELSE <<>>) \o path
            ELSE path
      u2 == IF scheme # <<>> THEN scheme \o <<":">> \o u1 ELSE u1
      u3 == IF query # <<>> THEN u2 \o <<"?">> \o query ELSE u2
  IN IF fragment # <<>> THEN u3 \o <<"#">> \o fragment ELSE u3

(***************************************************************************)
(* crawler.py: normalize_url, same_site, extract_domain, build_ctx         *)
(***************************************************************************)
\* a normalization that leaves an empty path empty
normalize_url_empty_path(url) ==
  IF UrlParseRaises(url) THEN url
  ELSE
  Only({IF parsed.scheme = <<>> THEN url
        ELSE UrlUnparse(Lower(parsed.scheme), Lower(parsed.netloc),
                        parsed.path, parsed.query, <<>>) :
        parsed \in {UrlParse(url)}})

\* "except Exception: return url" when urlparse raises
normalize_url(url) ==
  IF UrlParseRaises(url) THEN url
  ELSE
  Only({IF parsed.scheme = <<>> THEN url
        ELSE UrlUnparse(Lower(parsed.scheme), Lower(parsed.netloc),
                        IF parsed.path = <<>> THEN <<"/">> ELSE parsed.path,
                        parsed.query, <<>>) :
        parsed \in {UrlParse(url)}})

\* urllib.parse.urlparse(url).netloc.lower()
LowerNetloc(url) == Only({Lower(parsed.netloc) : parsed \in {UrlParse(url)}})

\* same_site(url, ctx) raises: its urlparse is not inside a try
same_site_raises(url) == UrlParseRaises(url)

\* a suffix test without the dot: host.endswith(ctx.root_host)
same_site_no_dot(url, ctx) ==
  \E host \in {LowerNetloc(url)} :
     host \in ctx.allowed_hosts \/ EndsWith(host, ctx.root_host)

\* the value same_site returns when it does not raise
same_site(url, ctx) ==
  \E host \in {LowerNetloc(url)} :
     host \in ctx.allowed_hosts \/ EndsWith(host, <<".">> \o ctx.root_host)

\* The labels of a host name: "a.b.c" -> <<"a", "b", "c">> as strings
RECURSIVE SplitDots(_)
SplitDots(h) ==
  Only({IF p.head = h THEN <<h>> ELSE <<p.head>> \o SplitDots(p.tail) :
        p \in {SplitAt(h, ".")}})

\* tldextract over the public suffix "com", the only one among the modelled
\* hosts: the registrable domain is the last label before the suffix, joined
\* to the suffix with a dot.
extract_domain(url) ==
  Only({IF Len(labels) >= 2 /\ labels[Len(labels)] = <<"c", "o", "m">>
          THEN labels[Len(labels) - 1] \o <<".">> \o labels[Len(labels)]
          ELSE labels[Len(labels)] :
        labels \in {SplitDots(host) : host \in {LowerNetloc(url)}}})

build_ctx(root) ==
  Only({[root |-> normalize_url(root),
         root_host |-> root_host,
         allowed_hosts |-> {LowerNetloc(root), root_host,
                            <<"w", "w", "w", ".">> \o root_host}] :
        root_host \in {extract_domain(root)}})

\* urllib.parse.urljoin(base, href) for the hrefs of the modelled pages: an
\* href with a scheme of its own, a network-path href, and a path that
\* starts with "/" and has no "." or ".." segment (for which the resolved
\* path is the href's path).
UrlJoin(base, href) ==
  Only({IF href = <<>> THEN base
        ELSE IF scheme # b.scheme \/ scheme \notin UsesNetloc THEN href
        ELSE IF h.netloc # <<>>
          THEN UrlUnparse(scheme, h.netloc, h.path, h.query, h.fragment)
        ELSE IF h.path = <<>>
          THEN UrlUnparse(scheme, b.netloc, b.path,
                          IF h.query # <<>> THEN h.query ELSE b.query,
                          h.fragment)
        ELSE UrlUnparse(scheme, b.netloc, h.path, h.query, h.fragment) :
        <<b, h, scheme>> \in
          {<<b0, h0, IF h0.scheme = <<>> THEN b0.scheme ELSE h0.scheme>> :
             b0 \in {UrlParse(base)}, h0 \in {UrlParse(href)}}})

(***************************************************************************)
(* The site that is crawled: what its server answers.                      *)
(***************************************************************************)
HTTPS == <<"h", "t", "t", "p", "s", ":", "/", "/">>

HostA == <<"a", ".", "c", "o", "m">>

HostOther == <<"o", "t", "h", "e", "r", ".", "c", "o", "m">>

PageRoot == HTTPS \o HostA \o <<"/">>

PageA == HTTPS \o HostA \o <<"/", "a">>

PageB == HTTPS \o HostA \o <<"/", "b">>

PagePrivacy == HTTPS \o HostA \o <<"/", "p", "r", "i", "v", "a", "c", "y">>

PageOther == HTTPS \o HostOther \o <<"/", "x">>

\* a link that urlparse rejects: http://[x
Malformed == <<"h", "t", "t", "p", ":", "/", "/", "[", "x">>

\* decimal digit of a small number
Digit(i) == <<"0", "1", "2", "3", "4", "5", "6", "7", "8", "9">>[i + 1]

\* the i-th page that only the sitemap lists: https://a.com/s/<i>
SeedOnly(i) == HTTPS \o HostA \o <<"/", "s", "/", Digit(i)>>

SeedOnlyUrls == {SeedOnly(i) : i \in 1..NumSeedOnly}

\* The href attributes of the anchors in the HTML served for a URL.  The
\* root links to A and B; A and B link to each other (a cycle), B through
\* a fragment link; A links to the privacy page, B to another site.  The
\* second sitemap-only page holds a malformed link.
Hrefs(url) ==
  CASE url = PageRoot ->
         {<<"/", "a">>, <<"/", "b">>, <<"m", "a", "i", "l", "t", "o", ":", "x">>}
    [] url = PageA -> {<<"/", "b">>, <<"/", "p", "r", "i", "v", "a", "c", "y">>}
    [] url = PageB -> {<<"/", "a", "#", "t", "o", "p">>, PageOther}
    [] url = PagePrivacy -> {<<"/">>}
    [] url = SeedOnly(2) -> {Malformed}
    [] OTHER -> {}

\* What a GET of a URL may return: an HTML page, a response of another
\* content type, or nothing (network error, timeout, status >= 400).
FetchOutcomes == {"html", "nonhtml", "fail"}

\* The <loc> and feed entries that seed discovery may find on the site.
SitemapChoices ==
  { {},
    SeedOnlyUrls,
    {SeedOnly(1), PagePrivacy, PageOther},
    {HTTPS \o HostA, PageA},
    {Malformed} }

\* The root_url arguments of the modelled calls
RootChoices == {PageRoot, HTTPS \o <<"A", ".", "c", "o", "m">>}

\* The exclude_patterns arguments of the modelled calls (literal patterns)
ExcludeChoices == {<<>>, << <<"/", "p", "r", "i", "v", "a", "c", "y">> >>}

\* The include_patterns arguments of the modelled calls
IncludeChoices == {<<>>, << <<"/", "s", "/">> >>}

\* Every URL that can come up in a crawl of the site
Universe ==
  {PageRoot, PageA, PageB, PagePrivacy, PageOther, Malformed} \cup SeedOnlyUrls

\* The sequences that list each element of a set once, in any order
Orderings(S) ==
  UNION {{f \in [1..n -> S] : \A i, j \in 1..n : f[i] = f[j] => i = j} :
           n \in {Cardinality(S)}}

\* re.search(p, url) for a literal pattern p
ReSearch(p, url) == Contains(url, p)

Max(a, b) == IF a >= b THEN a ELSE b

(***************************************************************************)
(* crawler.py: inpage_discover                                             *)
(***************************************************************************)
MailTo == <<"m", "a", "i", "l", "t", "o", ":">>

Tel == <<"t", "e", "l", ":">>

\* the hrefs inpage_discover joins to the base: not mailto: and not tel:
JoinedHrefs(html) ==
  {href \in html : ~StartsWith(href, MailTo) /\ ~StartsWith(href, Tel)}

\* inpage_discover raises: urljoin is not inside a try, and it parses the
\* base and every href that is not empty
inpage_discover_raises(html, base_url) ==
  \E href \in JoinedHrefs(html) :
     href # <<>> /\ (UrlParseRaises(base_url) \/ UrlParseRaises(href))

\* the set inpage_discover returns when it does not raise; html is given
\* by the href attributes of its anchors
inpage_discover(html, base_url) ==
  {normalize_url(joined) :
     joined \in {UrlJoin(base_url, href) : href \in JoinedHrefs(html)}}

(***************************************************************************)
(* State of one call crawl_site(root_url, max_pages, concurrency,          *)
(* include_patterns, exclude_patterns).                                    *)
(*                                                                         *)
(* The workers are the tasks of "[asyncio.create_task(worker()) for _ in   *)
(* range(concurrency)]": they run the same code and have no identity, so   *)
(* the pool is a bag of worker states [pc, current].  A worker's variable  *)
(* current is read only between its assignment and the next loop test; it  *)
(* is kept as NoUrl outside that stretch.                                  *)
(***************************************************************************)
VARIABLES
  root_url,          \* argument
  max_pages,         \* argument
  concurrency,       \* argument
  include_patterns,  \* argument
  exclude_patterns,  \* argument
  sitemap,           \* the site: the URLs its sitemaps and feeds list
  ctx,               \* build_ctx(root_url)
  phase,             \* crawl_site: "start", "workers", "merge", "done",
                     \* "raised"; "calls" and "discover" for direct calls
                     \* and for the discovery loops
  to_visit,          \* crawl_bfs: the asyncio.Queue, oldest first
  seen,              \* crawl_bfs: set
  results,           \* crawl_bfs: set
  sem,               \* crawl_bfs: free permits of the semaphore
  workers,           \* crawl_bfs: the bag of the workers' states
  fetchLog,          \* per URL: the outcomes of the GETs completed for it
  seed_left,         \* crawl_site: the seeds its for loop has not reached yet
  all_urls,          \* crawl_site: set
  output,            \* crawl_site: the returned list
  url_parts,         \* direct calls: the components of the argument url
  normalized,        \* direct calls: what normalize_url returned, call by call
  in_scope,          \* direct calls: what same_site returned
  probes,            \* discovery: what each guessed endpoint answers
  probed,            \* discovery: the number of endpoints tried so far
  discovered         \* discovery: the URLs found so far

vars ==
  <<root_url, max_pages, concurrency, include_patterns, exclude_patterns,
    sitemap, ctx, phase, to_visit, seen, results, sem, workers, fetchLog,
    seed_left, all_urls, output, url_parts, normalized, in_scope,
    probes, probed, discovered>>

\* what no step of a crawl changes: the arguments, the site, the context,
\* and the variables of the direct calls of normalize_url and same_site
args ==
  <<root_url, max_pages, concurrency, include_patterns, exclude_patterns,
    sitemap, ctx, url_parts, normalized, in_scope, probes, probed, discovered>>

NoUrl == <<>>

\* a worker waiting at to_visit.get(), one that left its loop
AtGet == [pc |-> "get", current |-> NoUrl]

AtDone == [pc |-> "done", current |-> NoUrl]

\* a worker that holds a dequeued URL, one that awaits the GET of its URL
AtClaim(url) == [pc |-> "claim", current |-> url]

AtFetch(url) == [pc |-> "fetch", current |-> url]

\* the pool after one worker in state w went to state w2
Moved(w, w2) == (workers (-) SetToBag({w})) (+) SetToBag({w2})

\* n workers in state w
Pool(n, w) == [x \in {w} |-> n]

\* discover_from_sitemap(base) | discover_from_feeds(base): each listed URL,
\* normalized
Discovered == {normalize_url(loc) : loc \in sitemap}

\* crawl_bfs: max(100, max_pages // 2), the number of seeds it enqueues
SeedLimit == Max(100, max_pages \div 2)

\* a slice that keeps no seed
TakeNone(q, n) == <<>>

\* the first n elements of a sequence (list[:n])
Take(q, n) == SubSeq(q, 1, IF n < Len(q) THEN n ELSE Len(q))

\* no direct call of normalize_url or same_site is made
NoParts ==
  [scheme |-> <<>>, slashes |-> <<>>, host |-> <<>>, path |-> <<>>,
   query |-> <<>>, fragment |-> <<>>]

Init ==
  /\ url_parts = NoParts
  /\ probes = <<>>
  /\ probed = 0
  /\ discovered = {}
  /\ normalized = <<>>
  /\ in_scope = <<>>
  /\ root_url \in RootChoices
  /\ max_pages \in 1..MaxPagesBound
  /\ concurrency \in 1..MaxConcurrency
  /\ include_patterns \in IncludeChoices
  /\ exclude_patterns \in ExcludeChoices
  /\ sitemap \in SitemapChoices
  /\ ctx = build_ctx(root_url)
  /\ phase = "start"
  /\ to_visit = <<>>
  /\ seen = {}
  /\ results = {}
  /\ sem = 0
  /\ workers = EmptyBag
  /\ fetchLog = [u \in Universe |-> <<>>]
  /\ seed_left = {}
  /\ all_urls = {}
  /\ output = <<>>

(***************************************************************************)
(* crawl_bfs.worker                                                        *)
(***************************************************************************)
\* a cap test that is off by one
CapReachedLate(res) == Cardinality(res) > max_pages

\* a cap test that never stops a worker
CapReachedNever(res) == FALSE

\* len(results) >= max_pages
CapReached(res) == Cardinality(res) >= max_pages

\* a loop whose test never sends a worker out: while True
LoopTestAlways(res) == AtGet

\* "while len(results) < max_pages:", as the worker meets it when it starts
\* and after each continue: it goes on to wait at to_visit.get() or leaves
\* the loop.  The test and what ran before it are not separated by a
\* suspension point.
LoopTest(res) == IF CapReached(res) THEN AtDone ELSE AtGet

(***************************************************************************)
(* crawl_bfs up to the creation of the workers: the root and the seeds are *)
(* put on the queue (the order of list(seed_urls) is the set's iteration   *)
(* order, which is any order), the semaphore is made and the workers are   *)
(* created.                                                                *)
(***************************************************************************)
StartBfs ==
  /\ phase = "start"
  /\ \E seed_urls \in {Discovered} :
       \E order \in Orderings(seed_urls) :
          to_visit' = <<ctx.root>> \o Take(order, SeedLimit)
  /\ sem' = concurrency
  /\ workers' = Pool(concurrency, LoopTest(results))
  /\ phase' = "workers"
  /\ UNCHANGED <<args, seen, results, fetchLog, seed_left, all_urls, output>>

\* current = await asyncio.wait_for(to_visit.get(), timeout=1.0): an item is
\* there and is taken; the worker resumes with it at its next turn.
Dequeue ==
  /\ phase = "workers"
  /\ BagIn(AtGet, workers)
  /\ to_visit # <<>>
  /\ workers' = Moved(AtGet, AtClaim(Head(to_visit)))
  /\ to_visit' = Tail(to_visit)
  /\ UNCHANGED <<args, phase, seen, results, sem, fetchLog, seed_left, all_urls, output>>

\* a worker that retries the dequeue on a timeout instead of leaving the loop
AfterTimeoutRetry == AtGet

\* where the worker goes on asyncio.TimeoutError: break
AfterTimeout == AtDone

\* the queue stayed empty for the whole timeout
IdleTimeout ==
  /\ phase = "workers"
  /\ BagIn(AtGet, workers)
  /\ to_visit = <<>>
  /\ workers' = Moved(AtGet, AfterTimeout)
  /\ UNCHANGED <<args, phase, to_visit, seen, results, sem, fetchLog, seed_left,
                 all_urls, output>>

\* a dedup check that never finds the URL
AlreadySeenNever(url) == FALSE

\* if current in seen
AlreadySeen(url) == url \in seen

\* any(re.search(p, current) for p in exclude_patterns or [])
Excluded(url, exc) == \E i \in 1..Len(exc) : ReSearch(exc[i], url)

\* filters that forget the scope test
DiscardedExcludedOnly(url, inc, exc) == Excluded(url, exc)

\* filters that forget the exclusion patterns
DiscardedScopeOnly(url, inc, exc) == ~same_site(url, ctx)

\* filters that also drop a URL that matches no include pattern
DiscardedWithInclude(url, inc, exc) ==
  \/ ~same_site(url, ctx)
  \/ Excluded(url, exc)
  \/ inc # <<>> /\ ~\E i \in 1..Len(inc) : ReSearch(inc[i], url)

\* The filters between the claim and the fetch: the URL is dropped when it
\* is out of scope or excluded; include patterns are not consulted.
Discarded(url, inc, exc) == ~same_site(url, ctx) \/ Excluded(url, exc)

\* An exception leaves a worker: asyncio.gather (without
\* return_exceptions) raises it in crawl_bfs, nothing catches it there or
\* in crawl_site ("try: ... finally: loop.close()"), and crawl_site raises.
\* The locals of crawl_bfs end with it.
WorkerRaises ==
  /\ phase' = "raised"
  /\ to_visit' = <<>>
  /\ seen' = {}
  /\ sem' = 0
  /\ workers' = EmptyBag

\* From the dedup check to the acquired permit, without suspension: the
\* semaphore has as many permits as there are workers and a worker holds
\* at most one, so the acquire never waits.
Claim(url, inc) ==
  /\ phase = "workers"
  /\ BagIn(AtClaim(url), workers)
  /\ IF AlreadySeen(url)
       THEN /\ workers' = Moved(AtClaim(url), LoopTest(results))
            /\ UNCHANGED <<phase, to_visit, seen, sem>>
       ELSE IF same_site_raises(url)
         THEN WorkerRaises
         ELSE /\ seen' = seen \cup {url}
              /\ UNCHANGED <<phase, to_visit>>
              /\ IF Discarded(url, inc, exclude_patterns)
                   THEN /\ workers' = Moved(AtClaim(url), LoopTest(results))
                        /\ UNCHANGED sem
                   ELSE /\ sem > 0
                        /\ sem' = sem - 1
                        /\ workers' = Moved(AtClaim(url), AtFetch(url))
  /\ UNCHANGED <<args, results, fetchLog, seed_left, all_urls, output>>

\* a link expansion that enqueues nothing
LinksToEnqueueNone(url) == {}

\* a link expansion that forgets "link not in seen"
LinksToEnqueueInScope(url) ==
  {link \in inpage_discover(Hrefs(url), url) : same_site(link, ctx)}

\* for link in discovered_links: if same_site(link, ctx) and link not in seen
LinksToEnqueue(url) ==
  {link \in inpage_discover(Hrefs(url), url) :
     same_site(link, ctx) /\ ~AlreadySeen(link)}

\* an assignment instead of the add
AcceptReplace(res, url) == {url}

\* the set a fetched HTML page leaves in results: results.add(current)
Accept(res, url) == res \cup {url}

\* an "async with sem" that does not give the permit back
ReleasedNever(s) == s

\* leaving "async with sem": the permit is given back, whatever fetch
\* returned
Released(s) == s + 1

\* a worker that takes a failed fetch for a response
NoResponseNever(resp) == FALSE

\* if not resp: fetch returned None (exception in client.get, or status
\* >= 400)
NoResponse(resp) == resp = "fail"

\* a worker that skips the content-type test
NotHtmlNever(resp) == FALSE

\* if "text/html" not in ctype
NotHtml(resp) == resp = "nonhtml"

\* The fetch returns, the permit is released, and the worker runs on to
\* its next suspension point.
FetchReturn(url) ==
  /\ phase = "workers"
  /\ BagIn(AtFetch(url), workers)
  /\ \E resp \in FetchOutcomes :
       /\ fetchLog' = [fetchLog EXCEPT ![url] = Append(@, resp)]
       /\ IF NoResponse(resp) \/ NotHtml(resp)
            THEN /\ workers' = Moved(AtFetch(url), LoopTest(results))
                 /\ sem' = Released(sem)
                 /\ UNCHANGED <<phase, seen, results, to_visit>>
            ELSE /\ results' = Accept(results, url)
                 /\ IF CapReached(results')
                      THEN /\ workers' = Moved(AtFetch(url), AtDone)
                           /\ sem' = Released(sem)
                           /\ UNCHANGED <<phase, seen, to_visit>>
                      ELSE IF inpage_discover_raises(Hrefs(url), url)
                        THEN WorkerRaises
                        ELSE /\ \E links \in {LinksToEnqueue(url)} :
                                  \E order \in Orderings(links) :
                                     to_visit' = to_visit \o order
                             /\ workers' = Moved(AtFetch(url), LoopTest(results'))
                             /\ sem' = Released(sem)
                             /\ UNCHANGED <<phase, seen>>
  /\ UNCHANGED <<args, seed_left, all_urls, output>>

(***************************************************************************)
(* crawl_site after the BFS                                                *)
(***************************************************************************)
\* await asyncio.gather(*tasks); return results; all_urls |= crawled.
\* The queue, seen, the semaphore and the workers are locals of crawl_bfs
\* and end with it; results is what it returns.
BfsReturn ==
  /\ phase = "workers"
  /\ BagToSet(workers) = {AtDone}
  /\ all_urls' = results
  /\ seed_left' = Discovered
  /\ phase' = "merge"
  /\ to_visit' = <<>>
  /\ seen' = {}
  /\ sem' = 0
  /\ workers' = EmptyBag
  /\ UNCHANGED <<args, results, fetchLog, output>>

\* a seed loop that breaks one URL short of max_pages
SeedLoopBreaksEarly(S) == Cardinality(S) + 1 >= max_pages

\* a seed loop that breaks one URL late
SeedLoopBreaksLate(S) == Cardinality(S) > max_pages

\* for u in seed: if len(all_urls) >= max_pages: break
SeedLoopBreaks(S) == Cardinality(S) >= max_pages

\* one iteration of "for u in seed" that does not break
MergeSeed ==
  /\ phase = "merge"
  /\ ~SeedLoopBreaks(all_urls)
  /\ \E u \in seed_left :
       /\ all_urls' = all_urls \cup {u}
       /\ seed_left' = seed_left \ {u}
  /\ UNCHANGED <<args, phase, to_visit, seen, results, sem, workers, fetchLog, output>>

\* a crawl_site without the fallback
FallbackMissing(S) == S

\* a crawl_site that always adds the root URL
FallbackAlways(S) == S \cup {root_url}

\* if not all_urls: all_urls.add(root_url)
Fallback(S) == IF S = {} THEN {root_url} ELSE S

\* the loop over the seeds ends (exhausted, or break), then the fallback
\* and return sorted(all_urls)
Return ==
  /\ phase = "merge"
  /\ seed_left = {} \/ SeedLoopBreaks(all_urls)
  /\ all_urls' = Fallback(all_urls)
  /\ output' = Sorted(all_urls')
  /\ phase' = "done"
  /\ UNCHANGED <<args, to_visit, seen, results, sem, workers, fetchLog, seed_left>>

Next ==
  \/ StartBfs
  \/ Dequeue
  \/ IdleTimeout
  \/ \E url \in Universe : Claim(url, include_patterns)
  \/ \E url \in Universe : FetchReturn(url)
  \/ BfsReturn
  \/ MergeSeed
  \/ Return

Spec == Init /\ [][Next]_vars

\* The event loop runs a task that is ready, every GET returns or times
\* out, and the dequeue timeout fires: a step that can be taken is taken.
FairSpec == Spec /\ WF_vars(Next)

(***************************************************************************)
(* Direct calls of the pure functions normalize_url and same_site, on URL  *)
(* strings put together from components: with and without scheme, in       *)
(* either case, with and without "//" and host, with empty and non-empty   *)
(* path, with and without query and fragment.  The context is              *)
(* build_ctx("https://a.com").                                             *)
(***************************************************************************)
SchemeParts ==
  {<<>>, <<"h", "t", "t", "p", "s", ":">>, <<"H", "T", "T", "P", "S", ":">>,
   <<"h", "t", "t", "p", ":">>}

HostParts ==
  {<<>>, HostA, <<"A", ".", "c", "o", "m">>, <<"w", "w", "w", ".">> \o HostA,
   <<"S", "u", "b", ".">> \o HostA, HostA \o <<".", "e", "v", "i", "l", ".", "c", "o", "m">>,
   HostOther, <<"x">> \o HostA, <<"[", "x">>}

PathParts == {<<>>, <<"/">>, <<"/", "a">>, <<"/", "/", "x">>}

QueryParts == {<<>>, <<"?", "x">>}

FragmentParts == {<<>>, <<"#", "t", "o", "p">>}

\* the components of the argument strings; a host comes after "//"
PartsChoices ==
  {p \in [scheme : SchemeParts, slashes : {<<>>, <<"/", "/">>}, host : HostParts,
          path : PathParts, query : QueryParts, fragment : FragmentParts] :
     p.slashes = <<>> => p.host = <<>>}

\* the argument string
UrlOf(p) == p.scheme \o p.slashes \o p.host \o p.path \o p.query \o p.fragment

PureInit ==
  /\ url_parts \in PartsChoices
  /\ probes = <<>>
  /\ probed = 0
  /\ discovered = {}
  /\ normalized = <<>>
  /\ in_scope = <<>>
  /\ root_url = HTTPS \o HostA
  /\ max_pages = 1
  /\ concurrency = 1
  /\ include_patterns = <<>>
  /\ exclude_patterns = <<>>
  /\ sitemap = {}
  /\ ctx = build_ctx(root_url)
  /\ phase = "calls"
  /\ to_visit = <<>>
  /\ seen = {}
  /\ results = {}
  /\ sem = 0
  /\ workers = EmptyBag
  /\ fetchLog = [u \in Universe |-> <<>>]
  /\ seed_left = {}
  /\ all_urls = {}
  /\ output = <<>>

\* what the direct calls leave alone
crawl ==
  <<root_url, max_pages, concurrency, include_patterns, exclude_patterns,
    sitemap, ctx, phase, to_visit, seen, results, sem, workers, fetchLog,
    seed_left, all_urls, output, probes, probed, discovered>>

\* what the discovery loops leave alone
crawl_and_calls ==
  <<root_url, max_pages, concurrency, include_patterns, exclude_patterns,
    sitemap, ctx, phase, to_visit, seen, results, sem, workers, fetchLog,
    seed_left, all_urls, output, url_parts, normalized, in_scope>>

\* normalize_url(url)
CallNormalize ==
  /\ phase = "calls"
  /\ normalized = <<>>
  /\ normalized' = <<normalize_url(UrlOf(url_parts))>>
  /\ UNCHANGED <<crawl, url_parts, in_scope>>

\* normalize_url(normalize_url(url))
CallNormalizeAgain ==
  /\ phase = "calls"
  /\ Len(normalized) = 1
  /\ normalized' = Append(normalized, normalize_url(normalized[1]))
  /\ UNCHANGED <<crawl, url_parts, in_scope>>

\* same_site(url, ctx): True, False, or the ValueError of urlparse
CallSameSite ==
  /\ phase = "calls"
  /\ in_scope = <<>>
  /\ \E url \in {UrlOf(url_parts)} :
       in_scope' = <<IF same_site_raises(url) THEN "ValueError"
                     ELSE IF same_site(url, ctx) THEN "True" ELSE "False">>
  /\ UNCHANGED <<crawl, url_parts, normalized>>

PureNext ==
  \/ CallNormalize
  \/ CallNormalizeAgain
  \/ CallSameSite

PureSpec == PureInit /\ [][PureNext]_vars

(***************************************************************************)
(* Seed discovery: discover_from_sitemap and discover_from_feeds, called   *)
(* by crawl_bfs with ctx.root before it starts its workers.  Each guessed  *)
(* endpoint is one pass of a for loop whose body is inside a try.          *)
(***************************************************************************)
\* str.rstrip('/')
RECURSIVE Rstrip(_)
Rstrip(s) ==
  IF s # <<>> /\ s[Len(s)] = "/" THEN Rstrip(SubSeq(s, 1, Len(s) - 1)) ELSE s

\* str.lstrip('/')
RECURSIVE Lstrip(_)
Lstrip(s) == IF s # <<>> /\ s[1] = "/" THEN Lstrip(Tail(s)) ELSE s

\* guess_sitemaps: candidates
SitemapCandidates ==
  <<<<"/", "s", "i", "t", "e", "m", "a", "p", ".", "x", "m", "l">>,
    <<"/", "s", "i", "t", "e", "m", "a", "p", "_", "i", "n", "d", "e", "x", ".", "x", "m", "l">>,
    <<"/", "s", "i", "t", "e", "m", "a", "p", "/", "s", "i", "t", "e", "m", "a", "p", ".", "x", "m", "l">>,
    <<"/", "s", "i", "t", "e", "m", "a", "p", "-", "i", "n", "d", "e", "x", ".", "x", "m", "l">>>>

\* guess_feeds: candidates
FeedCandidates ==
  <<<<"/", "f", "e", "e", "d">>,
    <<"/", "r", "s", "s">>,
    <<"/", "r", "s", "s", ".", "x", "m", "l">>,
    <<"/", "i", "n", "d", "e", "x", ".", "x", "m", "l">>,
    <<"/", "a", "t", "o", "m", ".", "x", "m", "l">>,
    <<"/", "b", "l", "o", "g", "/", "r", "s", "s", ".", "x", "m", "l">>,
    <<"/", "b", "l", "o", "g", "/", "i", "n", "d", "e", "x", ".", "x", "m", "l">>>>

\* urljoin(root + '/', c.lstrip('/')) with root = base_url.rstrip('/'): the
\* base ends with "/" and the candidate has no "." or ".." segment, so the
\* join is the concatenation
Guess(base_url, c) == Rstrip(base_url) \o <<"/">> \o Lstrip(c)

guess_sitemaps(base_url) ==
  [k \in 1..Len(SitemapCandidates) |-> Guess(base_url, SitemapCandidates[k])]

guess_feeds(base_url) ==
  [k \in 1..Len(FeedCandidates) |-> Guess(base_url, FeedCandidates[k])]

\* the endpoints tried, sitemaps first
NumEndpoints == Len(SitemapCandidates) + Len(FeedCandidates)

\* what an endpoint answers.  A sitemap endpoint: httpx.get raises
\* ("error"), the status is not 200 ("status"), the body does not parse
\* ("parse"), or the texts of its <loc> elements ("ok").  A feed endpoint:
\* feedparser.parse raises ("error"), the feed is malformed ("bozo"), or the
\* link (else id, else nothing) of each of its entries ("ok").
Answer(kind, items) == [kind |-> kind, items |-> items]

SitemapLists ==
  {<<SeedOnly(1), <<>>, PagePrivacy>>,
   <<HTTPS \o <<"A", ".", "c", "o", "m">>, Malformed>>}

FeedLists ==
  {<<PageA, <<"/", "b">>>>,
   <<PageOther, Malformed, SeedOnly(2)>>}

SitemapAnswers ==
  {Answer(kind, <<>>) : kind \in {"error", "status", "parse"}}
    \cup {Answer("ok", items) : items \in SitemapLists}

FeedAnswers ==
  {Answer(kind, <<>>) : kind \in {"error", "bozo"}}
    \cup {Answer("ok", items) : items \in FeedLists}

AnswersOf(k) == IF k <= Len(SitemapCandidates) THEN SitemapAnswers ELSE FeedAnswers

\* an endpoint that is not there: 404 for a sitemap, no feed for a feed
NotThere(k) ==
  IF k <= Len(SitemapCandidates) THEN Answer("status", <<>>) ELSE Answer("bozo", <<>>)

\* the sites: two endpoints answer in any way, the others are not there
ProbeChoices ==
  {[k \in 1..NumEndpoints |->
      IF k = i THEN ai ELSE IF k = j THEN aj ELSE NotThere(k)] :
     <<i, ai, j, aj>> \in
       UNION {{<<i0, a, j0, b>> : a \in AnswersOf(i0), b \in AnswersOf(j0)} :
                <<i0, j0>> \in {<<1, 2>>, <<2, 4>>, <<1, 5>>, <<3, 6>>, <<4, 11>>,
                                 <<5, 6>>, <<7, 11>>, <<8, 10>>}}}

\* a handler that drops what the earlier endpoints gave
AfterFailedProbeLost(found) == {}

\* "except Exception: continue" and the continue of a bad status or a
\* malformed feed: the loop goes on with what it has
AfterFailedProbe(found) == found

\* for loc in soup.find_all("loc"): if loc.text:
\*     discovered.add(normalize_url(loc.text))
SitemapUrls(items) ==
  {normalize_url(items[n]) : n \in {m \in 1..Len(items) : items[m] # <<>>}}

\* the entries a feed gives before urljoin raises on a link, if it does
FeedEntriesRead(items) ==
  {n \in 1..Len(items) :
     \A m \in 1..n : items[m] = <<>> \/ ~UrlParseRaises(items[m])}

\* for entry in parsed.entries: if link:
\*     urls.add(normalize_url(urljoin(feed_url, link)))
FeedUrls(feed_url, items) ==
  {normalize_url(UrlJoin(feed_url, items[n])) :
     n \in {m \in FeedEntriesRead(items) : items[m] # <<>>}}

\* discover_from_sitemap, one pass of its loop (lines 100-112)
ProbeSitemap ==
  /\ phase = "discover"
  /\ probed < Len(SitemapCandidates)
  /\ probed' = probed + 1
  /\ \E answer \in {probes[probed + 1]} :
       discovered' = IF answer.kind = "ok"
                       THEN discovered \cup SitemapUrls(answer.items)
                       ELSE AfterFailedProbe(discovered)
  /\ UNCHANGED <<crawl_and_calls, probes>>

\* discover_from_feeds, one pass of its loop (lines 119-129)
ProbeFeed ==
  /\ phase = "discover"
  /\ probed >= Len(SitemapCandidates)
  /\ probed < NumEndpoints
  /\ probed' = probed + 1
  /\ \E answer \in {probes[probed + 1]} :
       \E feed_url \in {guess_feeds(ctx.root)[probed + 1 - Len(SitemapCandidates)]} :
          discovered' = IF answer.kind = "ok"
                          THEN discovered \cup FeedUrls(feed_url, answer.items)
                          ELSE AfterFailedProbe(discovered)
  /\ UNCHANGED <<crawl_and_calls, probes>>

\* crawl_bfs after its discovery (lines 176-179, 234): the seeds go on the
\* queue behind the root and the workers are created
StartBfsDiscovered ==
  /\ phase = "discover"
  /\ probed = NumEndpoints
  /\ \E seed_urls \in {discovered} :
       \E order \in Orderings(seed_urls) :
          to_visit' = <<ctx.root>> \o Take(order, SeedLimit)
  /\ sem' = concurrency
  /\ workers' = Pool(concurrency, LoopTest(results))
  /\ phase' = "workers"
  /\ UNCHANGED <<args, seen, results, fetchLog, seed_left, all_urls, output>>

\* crawl_bfs is entered: await to_visit.put(ctx.root) (line 170)
DiscoverInit ==
  /\ probes \in ProbeChoices
  /\ probed = 0
  /\ discovered = {}
  /\ url_parts = NoParts
  /\ normalized = <<>>
  /\ in_scope = <<>>
  /\ root_url \in RootChoices
  /\ max_pages = MaxPagesBound
  /\ concurrency \in 1..MaxConcurrency
  /\ include_patterns = <<>>
  /\ exclude_patterns = <<>>
  /\ sitemap = {}
  /\ ctx = build_ctx(root_url)
  /\ phase = "discover"
  /\ to_visit = <<ctx.root>>
  /\ seen = {}
  /\ results = {}
  /\ sem = 0
  /\ workers = EmptyBag
  /\ fetchLog = [u \in Universe |-> <<>>]
  /\ seed_left = {}
  /\ all_urls = {}
  /\ output = <<>>

DiscoverNext ==
  \/ ProbeSitemap
  \/ ProbeFeed
  \/ StartBfsDiscovered

DiscoverSpec == DiscoverInit /\ [][DiscoverNext]_vars

(***************************************************************************)
(* The claims                                                              *)
(***************************************************************************)
\* the URLs of the list crawl_site returned
OutputSet == {output[i] : i \in 1..Len(output)}

\* the number of GETs of url that returned an HTML page (each is followed
\* by results.add(url))
AcceptCount(url) ==
  Cardinality({i \in 1..Len(fetchLog[url]) : fetchLog[url][i] = "html"})

\* C1: the list crawl_site returns has at most max_pages elements.
C1_OutputWithinMaxPages == phase = "done" => Len(output) <= max_pages

\* C2: inside crawl_bfs, results never has more than max_pages elements.
C2_ResultsWithinCap == phase = "workers" => Cardinality(results) <= max_pages

\* C3: a GET is issued at most once per URL: the GETs completed for a URL
\* and the workers that await one for it number at most one together, so
\* no two workers have the same URL in flight.
C3_FetchedAtMostOnce ==
  \A url \in Universe :
     Len(fetchLog[url]) + CopiesIn(AtFetch(url), workers) <= 1

\* C3 witness: a worker holds a second copy of a URL it took from the queue
\* while another worker awaits the GET of that URL.
C3_Witness ==
  \E url \in Universe :
     BagIn(AtFetch(url), workers) /\ BagIn(AtClaim(url), workers)

\* C4: with exclusion patterns given, no URL of the returned list matches one.
C4_NoExcludedInOutput ==
  (phase = "done" /\ exclude_patterns # <<>>)
    => \A url \in OutputSet : ~Excluded(url, exclude_patterns)

\* C5: every URL of the returned list is in scope (same_site).
C5_OutputInScope ==
  phase = "done" => \A url \in OutputSet : same_site(url, ctx)

\* C6: every URL in results is in scope and matches no exclusion pattern.
C6_ResultsInScopeNotExcluded ==
  \A url \in results :
     same_site(url, ctx) /\ ~Excluded(url, exclude_patterns)

\* C6 witness: an excluded URL and an out-of-scope URL were claimed during a
\* crawl that accepted the page linking to the excluded one.
C6_Witness ==
  /\ phase = "workers"
  /\ exclude_patterns # <<>>
  /\ PagePrivacy \in seen
  /\ PageOther \in seen
  /\ PageA \in results

\* C7: every worker exits and crawl_bfs returns, and each page of the link
\* cycle A <-> B is accepted into results at most once.
C7_BfsTerminates ==
  /\ <>(phase \in {"merge", "done"})
  /\ [](AcceptCount(PageA) <= 1 /\ AcceptCount(PageB) <= 1)

\* C7 witness: the crawl returned after accepting and expanding both pages
\* of the cycle.
C7_Witness ==
  /\ phase = "done"
  /\ {PageA, PageB} \subseteq results
  /\ Cardinality(results) < max_pages

\* C8: root unreachable and no seeds: crawl_site returns [root_url].
C8_UnreachableRootNoSeeds ==
  (phase = "done" /\ sitemap = {} /\ fetchLog[ctx.root] = <<"fail">>)
    => output = <<root_url>>

\* C8 witness: that case, for a root_url that is not in normalized form.
C8_Witness ==
  /\ phase = "done"
  /\ sitemap = {}
  /\ fetchLog[ctx.root] = <<"fail">>
  /\ root_url # ctx.root

\* C9 as stated: the sitemap lists the NumSeedOnly URLs that no page links
\* to, max_pages is at least their number: all of them are in the list.
C9_AllSeedsIncluded ==
  (phase = "done" /\ sitemap = SeedOnlyUrls /\ max_pages >= NumSeedOnly)
    => SeedOnlyUrls \subseteq OutputSet

\* C9 amended: all seeds are in the returned list when the URLs crawl_bfs
\* returned and the seeds number at most max_pages together.
C9_SeedsIncludedWhenRoom ==
  (phase = "done" /\ Cardinality(results \cup Discovered) <= max_pages)
    => Discovered \subseteq OutputSet

\* C9 witness: the merge added seed-only URLs the BFS had not accepted, next
\* to what the BFS returned.
C9_Witness ==
  /\ phase = "done"
  /\ sitemap = SeedOnlyUrls
  /\ results # {}
  /\ SeedOnlyUrls \cap results = {}
  /\ Cardinality(results \cup Discovered) <= max_pages

\* a step of the same crawl called with include patterns inc
StepWith(inc) ==
  \/ StartBfs
  \/ Dequeue
  \/ IdleTimeout
  \/ \E url \in Universe : Claim(url, inc)
  \/ \E url \in Universe : FetchReturn(url)
  \/ BfsReturn
  \/ MergeSeed
  \/ Return

AfterContinue == IF Cardinality(results) >= max_pages THEN AtDone ELSE AtGet

\* C11: a URL whose fetch failed is not in results, was fetched once and
\* is not fetched again; the step in which its fetch fails changes neither
\* results nor the queue (no link is enqueued) and does not end the crawl:
\* the worker is back at the loop test and takes the next queue item.
C11_FailedFetchDiscarded ==
  /\ [](\A url \in Universe :
          (\E i \in 1..Len(fetchLog[url]) : fetchLog[url][i] = "fail")
            => /\ url \notin results
               /\ Len(fetchLog[url]) = 1
               /\ ~BagIn(AtFetch(url), workers))
  /\ [][\A url \in Universe :
          fetchLog'[url] = Append(fetchLog[url], "fail")
            => /\ results' = results
               /\ to_visit' = to_visit
               /\ phase' = phase
               /\ workers' = Moved(AtFetch(url), AfterContinue)]_vars

\* C11 witness: the fetch of page A failed and the crawl went on to accept
\* page B.
C11_Witness ==
  /\ phase = "workers"
  /\ fetchLog[PageA] = <<"fail">>
  /\ PageB \in results
  /\ BagIn(AtGet, workers)

\* C12: a malformed link never makes crawl_site raise.
C12_MalformedNeverAborts == phase # "raised"

\* C13: the returned list is never empty; when the BFS and the seed
\* discovery yield nothing it is [root_url], and otherwise it holds only
\* URLs that the BFS or the seed discovery yielded.
C13_NeverEmpty ==
  phase = "done"
    => /\ output # <<>>
       /\ (results = {} /\ Discovered = {}) => output = <<root_url>>
       /\ (results # {} \/ Discovered # {})
            => OutputSet \subseteq results \cup Discovered

\* C13 witness: the root answered with something that is not HTML, there
\* are no seeds, and the list was returned.
C13_Witness ==
  /\ phase = "done"
  /\ sitemap = {}
  /\ fetchLog[ctx.root] = <<"nonhtml">>
  /\ root_url # ctx.root

\* C14: the returned list is strictly ascending in code-point order, so it
\* is sorted and holds no URL twice.
C14_SortedDistinct ==
  phase = "done"
    => \A i, j \in 1..Len(output) : i < j => StrLess(output[i], output[j])

\* C14 witness: a list of three URLs from the BFS and from the seeds, one
\* of them of another host.
C14_Witness ==
  /\ phase = "done"
  /\ Len(output) >= 3
  /\ results # {}
  /\ PageOther \in OutputSet

\* the URLs crawl_bfs was given or found: the root, the seeds it enqueued
\* and the links of the pages in results
Frontier ==
  {ctx.root} \cup Discovered \cup
  UNION {inpage_discover(Hrefs(page), page) :
           page \in {r \in results : ~inpage_discover_raises(Hrefs(r), r)}}

\* C17: when all workers have left their loop with results below
\* max_pages, the queue is empty and every URL of the frontier that is in
\* scope and not excluded was fetched, and is in results if the fetch gave
\* an HTML page.
C17_CoverageBelowBudget ==
  (/\ phase = "workers"
   /\ BagToSet(workers) = {AtDone}
   /\ Cardinality(results) < max_pages)
    => /\ to_visit = <<>>
       /\ \A url \in Frontier :
            (same_site(url, ctx) /\ ~Excluded(url, exclude_patterns))
              => /\ Len(fetchLog[url]) = 1
                 /\ fetchLog[url] = <<"html">> => url \in results

\* C17 witness: two workers have left their loop below the cap after the
\* root and a page it links to were accepted and expanded.
C17_Witness ==
  /\ phase = "workers"
  /\ BagToSet(workers) = {AtDone}
  /\ concurrency = 2
  /\ Cardinality(results) < max_pages
  /\ {PageRoot, PageA} \subseteq results

\* C18: inside crawl_bfs seen never loses an element, and every URL a step
\* appends to the queue is not in seen at that step.
C18_SeenNotReEnqueued ==
  [][(phase = "workers" /\ phase' = "workers")
       => /\ seen \subseteq seen'
          /\ \A i \in (Len(to_visit) + 1)..Len(to_visit') :
               to_visit'[i] \notin seen]_vars

\* C18 witness: a single worker accepted the privacy page below the cap and
\* expanded it; its only link is the root, which is in seen, and the queue
\* is empty.
C18_Witness ==
  /\ phase = "workers"
  /\ concurrency = 1
  /\ PagePrivacy \in results
  /\ Cardinality(results) < max_pages
  /\ ctx.root \in seen
  /\ to_visit = <<>>

\* the workers that hold a permit of the semaphore
FetchingCount ==
  Cardinality({url \in Universe : BagIn(AtFetch(url), workers)})

\* C19: a URL that is out of scope or excluded is never fetched and no
\* worker awaits a fetch of it; permits are held only by workers that
\* await a fetch.
C19_FilterBeforeFetch ==
  /\ \A url \in Universe \ {Malformed} :
       (~same_site(url, ctx) \/ Excluded(url, exclude_patterns))
         => fetchLog[url] = <<>> /\ ~BagIn(AtFetch(url), workers)
  /\ phase = "workers" => concurrency - sem = FetchingCount

\* C19 witness: an out-of-scope URL and an excluded URL were claimed while
\* another URL is being fetched.
C19_Witness ==
  /\ phase = "workers"
  /\ exclude_patterns # <<>>
  /\ {PagePrivacy, PageOther} \subseteq seen
  /\ sem < concurrency

\* C20: a URL whose response is not text/html is not in results; the step
\* in which that response arrives changes neither results nor the queue
\* (no link is enqueued) and the worker is back at the loop test.
C20_NonHtmlDiscarded ==
  /\ [](\A url \in Universe :
          (\E i \in 1..Len(fetchLog[url]) : fetchLog[url][i] = "nonhtml")
            => url \notin results)
  /\ [][\A url \in Universe :
          fetchLog'[url] = Append(fetchLog[url], "nonhtml")
            => /\ results' = results
               /\ to_visit' = to_visit
               /\ workers' = Moved(AtFetch(url), AfterContinue)]_vars

\* C20 witness: the root answered with another content type, none of its
\* links is known, and the crawl went on to accept a seed.
C20_Witness ==
  /\ phase = "workers"
  /\ fetchLog[PageRoot] = <<"nonhtml">>
  /\ PageA \notin seen /\ PageB \notin seen
  /\ SeedOnly(1) \in results
\* C15: normalize_url(normalize_url(u)) = normalize_url(u) for every
\* argument u.
C15_NormalizeIdempotent ==
  Len(normalized) = 2 => normalized[2] = normalized[1]

\* the hosts the scope policy of root https://a.com admits
InScopeHost(host) ==
  \/ host \in {HostA, <<"w", "w", "w", ".">> \o HostA}
  \/ EndsWith(host, <<".">> \o HostA)

\* C16: for the context of root https://a.com, same_site is True exactly
\* when the host of the URL, in lower case, is a.com or www.a.com or ends
\* with ".a.com"; it is False for a.com.evil.com, other.com and a URL
\* without host.
C16_SameSiteHosts ==
  (in_scope # <<>> /\ in_scope # <<"ValueError">>)
    => (in_scope = <<"True">> <=> InScopeHost(Lower(url_parts.host)))

\* C16 witness: same_site returned True for the host Sub.a.com and for a
\* URL without scheme.
C16_Witness ==
  /\ in_scope = <<"True">>
  /\ url_parts.host = <<"S", "u", "b", ".">> \o HostA
  /\ url_parts.scheme = <<>>
\* C21: the step in which a worker's accept brings results to max_pages
\* or more leaves the queue unchanged and takes that worker out of its
\* loop.
C21_CapAcceptStopsWorker ==
  [][\A url \in Universe :
       (/\ phase = "workers"
        /\ fetchLog'[url] = Append(fetchLog[url], "html")
        /\ Cardinality(results') >= max_pages)
         => /\ to_visit' = to_visit
            /\ workers' = Moved(AtFetch(url), AtDone)]_vars

\* C21 witness: with max_pages = 1 and no seeds the root page, which holds
\* links, was accepted; the queue is empty and the worker is out of its
\* loop.
C21_Witness ==
  /\ phase = "workers"
  /\ max_pages = 1
  /\ sitemap = {}
  /\ fetchLog[PageRoot] = <<"html">>
  /\ to_visit = <<>>
  /\ BagIn(AtDone, workers)

\* the number of workers that await a fetch
InFlight ==
  BagCardinality([w \in {x \in BagToSet(workers) : x.pc = "fetch"} |->
                    CopiesIn(w, workers)])

\* C23: inside crawl_bfs at most concurrency fetches are in flight, and
\* the permits taken are exactly those of the workers awaiting a fetch:
\* each is taken before the GET and given back when the fetch returns.
C23_InFlightWithinConcurrency ==
  phase = "workers"
    => /\ sem \in 0..concurrency
       /\ InFlight <= concurrency
       /\ sem + InFlight = concurrency

\* C23 witness: both permits are taken after a fetch that failed and a
\* fetch that succeeded gave theirs back.
C23_Witness ==
  /\ phase = "workers"
  /\ concurrency = 2
  /\ sem = 0
  /\ \E url \in Universe : fetchLog[url] = <<"fail">>
  /\ \E url \in Universe : fetchLog[url] = <<"html">>

\* C26: unless the list is the fallback [root_url], every URL of the
\* returned list was fetched during the crawl and the fetch gave an HTML
\* page.
C26_OutputFetchedAsHtml ==
  (phase = "done" /\ (results # {} \/ Discovered # {}))
    => \A url \in OutputSet : url \in Universe /\ fetchLog[url] = <<"html">>

\* C27: inside crawl_bfs results has at most max_pages + concurrency - 1
\* elements.
C27_BoundedOvershoot ==
  Cardinality(results) <= max_pages + concurrency - 1

\* C27 witness: two workers, and results holds max_pages + 1 URLs.
C27_Witness ==
  /\ phase = "workers"
  /\ concurrency = 2
  /\ Cardinality(results) = max_pages + 1

\* C28: inside crawl_bfs results is a subset of seen and every URL in it
\* has exactly one completed fetch, which gave an HTML page; results never
\* loses an element.
C28_ResultsSeenFetchedOnce ==
  /\ [](phase = "workers"
          => /\ results \subseteq seen
             /\ \A url \in results : fetchLog[url] = <<"html">>)
  /\ [][results \subseteq results']_vars

\* C28 witness: results holds two pages while the fetch of a third URL
\* failed.
C28_Witness ==
  /\ phase = "workers"
  /\ Cardinality(results) = 2
  /\ \E url \in seen : fetchLog[url] = <<"fail">>

\* C29: the returned list holds every URL crawl_bfs returned; a step of
\* the seed loop adds a seed only to a set of fewer than max_pages URLs and
\* removes nothing; when crawl_bfs returned max_pages or more URLs the
\* list holds exactly those.
C29_SeedMergeFrame ==
  /\ [](phase = "done"
          => /\ results \subseteq OutputSet
             /\ Cardinality(results) >= max_pages => OutputSet = results)
  /\ [][(phase = "merge" /\ all_urls' # all_urls)
          => /\ all_urls \subseteq all_urls'
             /\ Cardinality(all_urls) < max_pages
             /\ all_urls' \ all_urls \subseteq Discovered \cup {root_url}]_vars

\* C29 witness: crawl_bfs returned max_pages URLs, a seed is not among
\* them, and the list was returned.
C29_Witness ==
  /\ phase = "done"
  /\ Cardinality(results) >= max_pages
  /\ Discovered \ results # {}

SameButForm(p, q) ==
  /\ q.slashes = p.slashes
  /\ q.query = p.query
  /\ Lower(q.scheme) = Lower(p.scheme)
  /\ Lower(q.host) = Lower(p.host)
  /\ q.path = p.path \/ {p.path, q.path} \subseteq {<<>>, <<"/">>}

\* C24: normalize_url gives one string for two URLs with a scheme that
\* urlparse accepts and that differ only in the fragment, in the letter
\* case of scheme and host, or in an empty path against "/"; it gives two
\* strings for two URLs that differ only in the query; it returns a URL
\* without scheme unchanged.
C24_NormalizeEquivalences ==
  (phase = "calls" /\ Len(normalized) >= 1)
    => /\ url_parts.scheme = <<>> => normalized[1] = UrlOf(url_parts)
       /\ \A q \in PartsChoices :
            /\ (/\ url_parts.scheme # <<>>
                /\ ~UrlParseRaises(UrlOf(url_parts))
                /\ SameButForm(url_parts, q))
                 => normalize_url(UrlOf(q)) = normalized[1]
            /\ (q.query # url_parts.query /\ q = [url_parts EXCEPT !.query = q.query])
                 => normalize_url(UrlOf(q)) # normalized[1]

\* C24 witness: HTTPS://A.com?x#top was normalized to https://a.com/?x
C24_Witness ==
  /\ phase = "calls"
  /\ url_parts.scheme = <<"H", "T", "T", "P", "S", ":">>
  /\ url_parts.host = <<"A", ".", "c", "o", "m">>
  /\ url_parts.path = <<>>
  /\ url_parts.query = <<"?", "x">>
  /\ url_parts.fragment # <<>>
  /\ normalized = <<HTTPS \o HostA \o <<"/", "?", "x">>>>

\* the URLs the site offers to a crawl that accepted the pages A: the root,
\* the seeds and the links of the pages in A
Offered(A) ==
  {ctx.root} \cup Discovered \cup
  UNION {inpage_discover(Hrefs(page), page) :
           page \in {r \in A : ~inpage_discover_raises(Hrefs(r), r)}}

\* url passes the filters of the worker
Eligible(url) ==
  /\ ~same_site_raises(url)
  /\ ~Discarded(url, include_patterns, exclude_patterns)

\* the pages of the site that answer with HTML, from the pages A on: the
\* least set that holds every eligible offered URL whose fetch gave HTML.
\* It is a function of the site and of the outcome of the fetch of each
\* URL, not of the order of the steps.
RECURSIVE SiteAccepted(_)
SiteAccepted(A) ==
  LET B == {url \in Offered(A) \cap Universe :
              Eligible(url) /\ fetchLog[url] = <<"html">>}
  IN IF B \subseteq A THEN A ELSE SiteAccepted(A \cup B)

\* C30: when the accepted pages of the site and the seeds together number
\* fewer than max_pages, every eligible URL the site offers was fetched
\* exactly once and the returned list is the sorted union of the accepted
\* pages and the seeds (or the root alone when both are empty): a function
\* of the site and the fetch outcomes, the same for every order of the
\* steps and every concurrency.
C30_ScheduleIndependentBelowBudget ==
  phase = "done"
    => \A accepted \in {SiteAccepted({})} :
         Cardinality(accepted \cup Discovered) < max_pages
           => /\ \A url \in Offered(accepted) :
                   Eligible(url) => Len(fetchLog[url]) = 1
              /\ output = Sorted(IF accepted \cup Discovered = {}
                                  THEN {root_url}
                                  ELSE accepted \cup Discovered)

\* C30 witness: two workers, max_pages = 3, and a list of two URLs was
\* returned for a site whose accepted pages and seeds number two, after
\* fetches of further pages that did not give HTML.
C30_Witness ==
  /\ phase = "done"
  /\ concurrency = 2
  /\ max_pages = 3
  /\ Len(output) = 2
  /\ SiteAccepted({}) # {}
  /\ Cardinality(SiteAccepted({}) \cup Discovered) = 2
  /\ \E url \in Universe : fetchLog[url] \in {<<"fail">>, <<"nonhtml">>}

\* the URLs an answer holds, written out list by list
ListedBy(answer) ==
  IF answer.kind # "ok" THEN {}
  ELSE IF answer.items = <<SeedOnly(1), <<>>, PagePrivacy>>
    THEN {SeedOnly(1), PagePrivacy}
  ELSE IF answer.items = <<HTTPS \o <<"A", ".", "c", "o", "m">>, Malformed>>
    THEN {PageRoot, Malformed}
  ELSE IF answer.items = <<PageA, <<"/", "b">>>>
    THEN {PageA, PageB}
  ELSE {PageOther}

\* C25: whatever the endpoints tried so far answered, the discovery holds
\* the URLs of each endpoint that answered with a list, and no other URL; it
\* does not raise; and crawl_bfs then starts its workers with the root
\* first on the queue and the discovered URLs behind it.
C25_DiscoveryIsolatesFailures ==
  probes # <<>>
    => /\ phase \in {"discover", "workers"}
       /\ \A k \in 1..probed : ListedBy(probes[k]) \subseteq discovered
       /\ discovered \subseteq UNION {ListedBy(probes[k]) : k \in 1..probed}
       /\ phase = "workers"
            => /\ probed = NumEndpoints
               /\ Head(to_visit) = ctx.root
               /\ {to_visit[n] : n \in 2..Len(to_visit)} = discovered
               /\ BagCardinality(workers) = concurrency

\* C25 witness: the first sitemap endpoint answered 404, the second gave
\* two URLs, the request to the fourth raised, the feeds were malformed,
\* and crawl_bfs started its workers with the root and the two URLs on the
\* queue.
C25_Witness ==
  /\ probes # <<>>
  /\ phase = "workers"
  /\ probes[1].kind = "status"
  /\ probes[2].kind = "ok"
  /\ probes[4].kind = "error"
  /\ probes[5].kind = "bozo"
  /\ Len(to_visit) = 3
====
